---- MODULE Spec2Model ----
(***************************************************************************)
(* The four entry points of src/native/curl_shim.c, each a single          *)
(* forwarding call of the variadic libcurl functions curl_easy_setopt and  *)
(* curl_easy_getinfo, together with the part of libcurl's handle state the *)
(* calls act on.                                                           *)
(*                                                                         *)
(* An entry point is modelled by what its body does: the library calls it  *)
(* makes (function, handle, key, argument, and the C type the argument is  *)
(* passed as through the "...") and how it turns the library's status into *)
(* its own return value.  The library is modelled as the callee of a       *)
(* variadic call: it is told the handle and the key, and reads the         *)
(* argument as the kind the KEY declares.  It is never told the kind the   *)
(* caller passed.  Reading an argument as another type than the one passed *)
(* is undefined behaviour; the bits read are then any value.               *)
(***************************************************************************)
EXTENDS Integers, Sequences, FiniteSets, TLC

\* Arguments are raw machine words 0..MaxValue; a pointer argument 0 is NULL.
MaxValue == 2
Values == 0 .. MaxValue

\* CURLcode values the modelled library paths return.
CURLE_OK == 0
CURLE_BAD_FUNCTION_ARGUMENT == 43
CURLE_UNKNOWN_OPTION == 48
CURLcode == {CURLE_OK, CURLE_BAD_FUNCTION_ARGUMENT, CURLE_UNKNOWN_OPTION}

\* CURL *handle: a live easy handle, and NULL.
NULL == 0
Handles == {1}
HandleArgs == Handles \cup {NULL}

\* CURLoption: one option of each kind, and a number that is no option.
CURLoption == {"TIMEOUT_MS", "PRIVATE", "NO_SUCH_OPTION"}
\* CURLINFO: one info of each kind, and a number that is no info.
CURLINFO == {"RESPONSE_CODE", "PRIVATE", "NO_SUCH_INFO"}

\* The kind a key declares (libcurl encodes it in the key's number).
OptionKind(option) ==
    CASE option = "TIMEOUT_MS" -> "long"
      [] option = "PRIVATE"    -> "ptr"
      [] OTHER                 -> "none"

InfoKind(info) ==
    CASE info = "RESPONSE_CODE" -> "long"
      [] info = "PRIVATE"       -> "ptr"
      [] OTHER                  -> "none"

StoredOptions == {o \in CURLoption : OptionKind(o) # "none"}

\* The caller's out cells: long *out / void **out point at cell 1, or are NULL.
OutCells == {1}
OutArgs == OutCells \cup {NULL}

VARIABLES
    store,      \* library: store[h][o], the option values handle h holds
    response,   \* library: response[h], the response code handle h reports
    mem,        \* caller: mem[c], the contents of out cell c
    ret,        \* what the last entry point returned
    libRet,     \* what the last library call returned
    libCalls,   \* the library calls the last entry point made
    shimCall,   \* the last entry point called, with its arguments
    dstore,     \* store, had every call been made on the library directly
    dmem,       \* mem, likewise
    dret        \* ret, likewise

vars == <<store, response, mem, ret, libRet, libCalls, shimCall, dstore, dmem, dret>>

NoCall == [shim |-> "none", handle |-> NULL, id |-> "NO_SUCH_OPTION", arg |-> 0]

\* One call of a library function: the argument and the C type it is passed as.
LibCall(fn, handle, key, arg, passed) ==
    [fn |-> fn, handle |-> handle, id |-> key, arg |-> arg, passed |-> passed]

----------------------------------------------------------------------------
\* libcurl, as the callee.

\* What va_arg yields: the argument, when it is read as the type it was
\* passed as; otherwise undefined behaviour, any word (ub).
VaArg(call, declared, ub) ==
    IF call.passed = declared THEN call.arg ELSE ub

\* curl_easy_setopt(handle, option, ...)
curl_easy_setopt(st, call, ub) ==
    IF call.handle = NULL
    THEN [st |-> st, rc |-> CURLE_BAD_FUNCTION_ARGUMENT]
    ELSE IF call.id \notin StoredOptions
    THEN [st |-> st, rc |-> CURLE_UNKNOWN_OPTION]
    ELSE [st |-> [st EXCEPT !.store[call.handle][call.id] =
                                VaArg(call, OptionKind(call.id), ub)],
          rc |-> CURLE_OK]

\* The value an info reports.
InfoValue(st, handle, info) ==
    IF info = "RESPONSE_CODE" THEN st.response[handle]
    ELSE st.store[handle]["PRIVATE"]

\* curl_easy_getinfo(handle, info, ...): the argument is the out pointer.  The
\* library writes through it as the info's kind; read back through a pointer
\* of the other kind the cell holds any word (ub).
curl_easy_getinfo(st, call, ub) ==
    IF call.handle = NULL \/ call.arg = NULL
    THEN [st |-> st, rc |-> CURLE_BAD_FUNCTION_ARGUMENT]
    ELSE IF call.id \notin CURLINFO \/ InfoKind(call.id) = "none"
    THEN [st |-> st, rc |-> CURLE_UNKNOWN_OPTION]
    ELSE [st |-> [st EXCEPT !.mem[call.arg] =
                      IF call.passed = InfoKind(call.id)
                      THEN InfoValue(st, call.handle, call.id)
                      ELSE ub],
          rc |-> CURLE_OK]

LibApply(st, call, ub) ==
    IF call.fn = "curl_easy_setopt"
    THEN curl_easy_setopt(st, call, ub)
    ELSE curl_easy_getinfo(st, call, ub)

\* The library calls of one entry point, in order; rc is the last status.
RECURSIVE RunCalls(_, _, _, _)
RunCalls(calls, st, rc, ub) ==
    IF calls = << >>
    THEN [st |-> st, rc |-> rc]
    ELSE LET r == LibApply(st, Head(calls), ub)
         IN  RunCalls(Tail(calls), r.st, r.rc, ub)

----------------------------------------------------------------------------
\* The entry points: the library calls the body makes, and the value it
\* returns as a function of the library's status.

\* Mutant: the status is re-encoded (any error becomes 1).
setopt_long_reencoded(handle, option, value) ==
    [calls |-> << LibCall("curl_easy_setopt", handle, option, value, "long") >>,
     ret   |-> [rc \in CURLcode |-> IF rc = CURLE_OK THEN 0 ELSE 1]]

curl_easy_setopt_long_shim(handle, option, value) ==
    [calls |-> << LibCall("curl_easy_setopt", handle, option, value, "long") >>,
     ret   |-> [rc \in CURLcode |-> rc]]

curl_easy_setopt_ptr_shim(handle, option, value) ==
    [calls |-> << LibCall("curl_easy_setopt", handle, option, value, "ptr") >>,
     ret   |-> [rc \in CURLcode |-> rc]]

curl_easy_getinfo_long_shim(handle, info, out) ==
    [calls |-> << LibCall("curl_easy_getinfo", handle, info, out, "long") >>,
     ret   |-> [rc \in CURLcode |-> rc]]

\* Mutant: a result already fetched is answered from the cell, without a call.
getinfo_ptr_buffered(handle, info, out) ==
    [calls |-> IF shimCall.shim = "curl_easy_getinfo_ptr_shim"
                  /\ shimCall.handle = handle /\ shimCall.id = info
                  /\ shimCall.arg = out /\ ret = CURLE_OK
               THEN << >>
               ELSE << LibCall("curl_easy_getinfo", handle, info, out, "ptr") >>,
     ret   |-> [rc \in CURLcode |-> rc]]

curl_easy_getinfo_ptr_shim(handle, info, out) ==
    [calls |-> << LibCall("curl_easy_getinfo", handle, info, out, "ptr") >>,
     ret   |-> [rc \in CURLcode |-> rc]]

----------------------------------------------------------------------------
\* The library function an entry point stands for, and the kind it passes.
LibraryOf(shim) ==
    IF shim \in {"curl_easy_setopt_long_shim", "curl_easy_setopt_ptr_shim"}
    THEN "curl_easy_setopt" ELSE "curl_easy_getinfo"

PassedBy(shim) ==
    IF shim \in {"curl_easy_setopt_long_shim", "curl_easy_getinfo_long_shim"}
    THEN "long" ELSE "ptr"

\* The same call made on the library directly.
DirectCall(c) == LibCall(LibraryOf(c.shim), c.handle, c.id, c.arg, PassedBy(c.shim))

\* One call of an entry point: body is what the entry point does, c names the
\* call, ub is the word an ill-typed read yields.
Invoke(body, c, ub) ==
    LET r == RunCalls(body.calls, [store |-> store, response |-> response, mem |-> mem],
                      CURLE_OK, ub)
        d == LibApply([store |-> dstore, response |-> response, mem |-> dmem],
                      DirectCall(c), ub)
    IN  /\ store' = r.st.store
        /\ mem' = r.st.mem
        /\ libRet' = r.rc
        /\ ret' = body.ret[r.rc]
        /\ libCalls' = body.calls
        /\ dstore' = d.st.store
        /\ dmem' = d.st.mem
        /\ dret' = d.rc
        /\ UNCHANGED response

\* The words an ill-typed read may yield; a well-typed call reads none.
UbWords(passed, declared) ==
    IF declared \notin {"none", passed} THEN Values ELSE {0}

ShimCall(shim, handle, key, arg) ==
    [shim |-> shim, handle |-> handle, id |-> key, arg |-> arg]

SetoptLong ==
    \E handle \in HandleArgs, option \in CURLoption, value \in Values :
      \E ub \in UbWords("long", OptionKind(option)) :
        /\ shimCall' = ShimCall("curl_easy_setopt_long_shim", handle, option, value)
        /\ Invoke(curl_easy_setopt_long_shim(handle, option, value), shimCall', ub)

SetoptPtr ==
    \E handle \in HandleArgs, option \in CURLoption, value \in Values :
      \E ub \in UbWords("ptr", OptionKind(option)) :
        /\ shimCall' = ShimCall("curl_easy_setopt_ptr_shim", handle, option, value)
        /\ Invoke(curl_easy_setopt_ptr_shim(handle, option, value), shimCall', ub)

GetinfoLong ==
    \E handle \in HandleArgs, info \in CURLINFO, out \in OutArgs :
      \E ub \in UbWords("long", InfoKind(info)) :
        /\ shimCall' = ShimCall("curl_easy_getinfo_long_shim", handle, info, out)
        /\ Invoke(curl_easy_getinfo_long_shim(handle, info, out), shimCall', ub)

GetinfoPtr ==
    \E handle \in HandleArgs, info \in CURLINFO, out \in OutArgs :
      \E ub \in UbWords("ptr", InfoKind(info)) :
        /\ shimCall' = ShimCall("curl_easy_getinfo_ptr_shim", handle, info, out)
        /\ Invoke(curl_easy_getinfo_ptr_shim(handle, info, out), shimCall', ub)

\* Handles as curl_easy_init leaves them (options at their defaults), with the
\* response code of whatever transfer the handle has been through.
Init ==
    /\ store = [h \in Handles |-> [o \in StoredOptions |-> 0]]
    /\ response \in [Handles -> Values]
    /\ mem \in [OutCells -> Values]
    /\ ret = CURLE_OK
    /\ libRet = CURLE_OK
    /\ libCalls = << >>
    /\ shimCall = NoCall
    /\ dstore = store
    /\ dmem = mem
    /\ dret = CURLE_OK

Next == SetoptLong \/ SetoptPtr \/ GetinfoLong \/ GetinfoPtr

Spec == Init /\ [][Next]_vars

----------------------------------------------------------------------------
Called == shimCall # NoCall

IsSetopt(c) == c.shim \in {"curl_easy_setopt_long_shim", "curl_easy_setopt_ptr_shim"}

\* C1: each of the four entry points returns exactly the status the library
\* call it made returned: 0 when the library reports OK, the library's nonzero
\* code otherwise.
C1_StatusVerbatim ==
    Called => /\ ret = libRet
              /\ (libRet = CURLE_OK <=> ret = 0)

\* C1 witness: an entry point has returned a nonzero library code.
C1_Witness ==
    /\ Called
    /\ libCalls # << >>
    /\ libRet = CURLE_UNKNOWN_OPTION
    /\ ret = CURLE_UNKNOWN_OPTION

\* C10: a call of an entry point makes exactly one call of the library function
\* it stands for, with the same handle, key and argument, and the handle state,
\* the out cells and the returned status are those the same sequence of direct
\* library calls gives.
C10_OneCallSameEffect ==
    Called => /\ libCalls = << DirectCall(shimCall) >>
              /\ store = dstore
              /\ mem = dmem
              /\ ret = dret

\* C10 witness: a second successful pointer getinfo in a row, after a set.
C10_Witness ==
    /\ shimCall.shim = "curl_easy_getinfo_ptr_shim"
    /\ shimCall.id = "PRIVATE"
    /\ shimCall.handle = 1
    /\ ret = CURLE_OK
    /\ store[1]["PRIVATE"] = MaxValue
    /\ mem[1] = MaxValue
    /\ libCalls = << LibCall("curl_easy_getinfo", 1, "PRIVATE", 1, "ptr") >>

\* A set of a known option on a live handle with a value of the other kind.
WrongKindSet(c) ==
    /\ IsSetopt(c)
    /\ c.handle # NULL
    /\ c.id \in StoredOptions
    /\ PassedBy(c.shim) # OptionKind(c.id)

\* C2: a set with a value of the wrong kind fails (with TypeMismatch; here any
\* nonzero status is accepted as that failure) and leaves the stored options
\* unchanged.
C2_WrongKindRejected ==
    [][WrongKindSet(shimCall') => (ret' # CURLE_OK /\ store' = store)]_vars

====
